---- MODULE Spec2Model ----
(***************************************************************************)
(* A model of the roadway selection and managed-lane engine of             *)
(* network_wrangler (src/network_wrangler/roadwaynetwork.py).              *)
(*                                                                         *)
(* A RoadwayNetwork owns three tables (nodes_df, links_df, shapes_df) and  *)
(* a selections cache.  A table is a sequence of rows in row order; every  *)
(* row carries its row label in the field "index" (pandas' index), since   *)
(* select_roadway_features returns labels and .loc looks rows up by label. *)
(* A table is the record of its rows, its column names and the name of its *)
(* index.  Cell values: model ids and node references are integers; lanes, *)
(* managed and roadway are strings ("" is a blanked cell, "NaN" a missing  *)
(* one); name and ref are the sequence of the tokens of the string;        *)
(* osm_node_id and shstReferenceId are tagged tuples; a point is           *)
(* <<node id, lateral offset>>, and a locationReferences value, its line   *)
(* string and the shape id hashed from it are the pair of end points.      *)
(***************************************************************************)
EXTENDS Integers, Sequences, FiniteSets, TLC

VARIABLES
    nodes_df,       \* self.nodes_df
    links_df,       \* self.links_df
    shapes_df,      \* self.shapes_df
    selections,     \* self.selections: selection key -> stored selection
    lastCall,       \* what the last operation was given, did and returned
    prevCall,       \* lastCall of the operation before it
    steps,          \* number of operations applied to the network so far
    db              \* the tables of a DBModelMixin and their foreign key

vars == <<nodes_df, links_df, shapes_df, selections, lastCall, prevCall, steps, db>>

net == <<nodes_df, links_df, shapes_df>>

----------------------------------------------------------------------------
(* Bounds of the model and constants of the program *)

MaxSteps == 3

SEARCH_BREADTH == 5
MAX_SEARCH_BREADTH == 10
SP_WEIGHT_FACTOR == 100
MANAGED_LANES_NODE_ID_SCALAR == 4500000
MANAGED_LANES_LINK_ID_SCALAR == 10000000

NODE_FOREIGN_KEY == "model_node_id"
UNIQUE_LINK_IDS == {"model_link_id"}
SELECTION_REQUIRES == {"link"}
\* the entries of the modes the model searches in
MODES_TO_NETWORK_LINK_VARIABLES ==
    [m \in {"drive", "walk"} |->
        IF m = "drive" THEN <<"drive_access">> ELSE <<"walk_access">>]
KEEP_SAME_ATTRIBUTES_ML_AND_GP ==
    {"distance", "bike_access", "drive_access", "transit_access", "walk_access",
     "maxspeed", "name", "oneway", "ref", "roadway", "length", "segment_id",
     "ft", "assignable"}
MANAGED_LANES_REQUIRED_ATTRIBUTES == {"A", "B", "model_link_id", "locationReferences"}

----------------------------------------------------------------------------
(* Generic helpers on sequences *)

Range(s) == {s[k] : k \in DOMAIN s}

RECURSIVE SumSeq(_)
SumSeq(s) == IF s = <<>> THEN 0 ELSE Head(s) + SumSeq(Tail(s))

\* df.index.tolist()
IndexList(df) == [k \in DOMAIN df |-> df[k].index]

\* a fresh RangeIndex 0..n-1 (append(..., ignore_index=True), reset_index())
RangeIndexed(df) == [k \in DOMAIN df |-> [df[k] EXCEPT !.index = k - 1]]

----------------------------------------------------------------------------
(* The network the model starts from *)

Table(rows, columns, index_name) ==
    [rows |-> rows, columns |-> columns, index_name |-> index_name]

Pt(n) == <<n, 0>>

NoRef == <<>>           \* the empty string in a tuple-valued cell
NaNCell == <<"NaN">>    \* NaN in a tuple-valued cell

\* a node row; refs_nan says that its two reference-id cells hold NaN
\* instead of lists
Node(n, osm, out, inb) ==
    [index |-> n, model_node_id |-> n, osm_node_id |-> <<"osm", osm>>,
     outboundReferenceIds |-> out, inboundReferenceIds |-> inb,
     refs_nan |-> FALSE, drive_access |-> 1, geometry |-> Pt(n)]

Link(ix, id, a, b, name, ref, lanes, managed) ==
    [index |-> ix, model_link_id |-> id, A |-> a, B |-> b,
     name |-> name, ref |-> ref, lanes |-> lanes, drive_access |-> 1,
     managed |-> managed, roadway |-> "primary",
     shstReferenceId |-> <<"shst", id>>,
     locationReferences |-> <<Pt(a), Pt(b)>>,
     id |-> <<Pt(a), Pt(b)>>]

Shape(ix, geom) == [index |-> ix, id |-> geom, geometry |-> geom]

BaseLinkCols(hasRef) ==
    {"model_link_id", "A", "B", "name", "lanes", "drive_access", "access",
     "managed", "roadway", "shstReferenceId", "locationReferences", "id",
     "geometry", "osm_link_id"}
    \cup (IF hasRef THEN {"ref"} ELSE {})

BaseNodeCols ==
    {"model_node_id", "osm_node_id", "outboundReferenceIds",
     "inboundReferenceIds", "drive_access", "geometry", "X", "Y"}

BaseShapeCols == {"id", "geometry"}

\* Nodes 1..4; nodes 2 and 3 carry the same osm_node_id; node 4 has no link.
\* Links 1->2 and 2->1 are "Main", 2->3 is "Side" with ref "Hwy".
InitNodes ==
    << Node(1, 10, {<<"shst", 1>>}, {<<"shst", 2>>}),
       Node(2, 20, {<<"shst", 2>>, <<"shst", 3>>}, {<<"shst", 1>>}),
       Node(3, 20, {}, {<<"shst", 3>>}),
       Node(4, 40, {}, {}) >>

InitLinks(m1, m3, hasRef) ==
    << Link(0, 1, 1, 2, <<"Main">>, <<>>, "2", m1),
       Link(1, 2, 2, 1, <<"Main">>, <<>>, "2", "0"),
       Link(2, 3, 2, 3, <<"Side">>, IF hasRef THEN <<"Hwy">> ELSE NaNCell, "1", m3) >>

InitShapes ==
    << Shape(0, <<Pt(1), Pt(2)>>), Shape(1, <<Pt(2), Pt(1)>>),
       Shape(2, <<Pt(2), Pt(3)>>) >>

NoCall == [op |-> "none"]

\* no DBModelMixin in use
NoDb == [table_names |-> {}]

\* the networks read: <<managed of link 1, managed of link 3, ref column>>
InitNetworks ==
    {<<"0", "0", TRUE>>, <<"1", "0", TRUE>>, <<"1", "1", TRUE>>, <<"0", "0", FALSE>>}

Init ==
    /\ \E n \in InitNetworks :
          links_df = Table(InitLinks(n[1], n[2], n[3]), BaseLinkCols(n[3]), "")
    /\ nodes_df = Table(InitNodes, BaseNodeCols, "model_node_id_idx")
    /\ shapes_df = Table(InitShapes, BaseShapeCols, "")
    /\ selections = [k \in {} |-> 0]
    /\ lastCall = NoCall
    /\ prevCall = NoCall
    /\ steps = 0
    /\ db = NoDb

----------------------------------------------------------------------------
(* Selection dictionaries.  A selection is a dict with the keys in "keys";  *)
(* "link" is a list of one-key dicts [key, vals]; "A" and "B" are dicts,   *)
(* written as the sequence of their <<key, value>> items in dict order.    *)

Pred(k, vals) == [key |-> k, vals |-> vals]

Sel(link, a, b) == [keys |-> {"link", "A", "B"}, link |-> link, A |-> a, B |-> b]

LinkOnlySel(link) == [keys |-> {"link"}, link |-> link, A |-> <<>>, B |-> <<>>]

mnid(n) == << <<"model_node_id", n>> >>
osm(v) == << <<"osm_node_id", <<"osm", v>> >> >>

\* the selections the model draws from, as a list: select calls name them
\* by position
Selections ==
    << LinkOnlySel(<<Pred("model_link_id", <<1, 3>>)>>),
       LinkOnlySel(<<Pred("model_link_id", <<9>>)>>),
       LinkOnlySel(<<Pred("name", <<"Main">>)>>),
       Sel(<<Pred("name", <<"Main">>)>>, mnid(1), mnid(2)),
       Sel(<<Pred("name", <<"Main">>), Pred("lanes", <<"2">>)>>, mnid(2), mnid(3)),
       Sel(<<Pred("name", <<"Hwy">>)>>, osm(20), mnid(3)),
       Sel(<<Pred("name", <<"Side">>)>>, mnid(3), mnid(2)),
       Sel(<<Pred("name", <<"Main">>)>>, mnid(1), mnid(4)),
       Sel(<<Pred("lanes", <<"3">>)>>, mnid(1), mnid(2)),
       Sel(<<Pred("name", <<"Main">>)>>, osm(99), mnid(2)),
       Sel(<<Pred("name", <<"Main">>)>>, mnid(1) \o osm(10), mnid(2)),
       Sel(<<Pred("name", <<"Zed">>)>>, mnid(1), mnid(2)),
       Sel(<<Pred("ref", <<"Hwy">>), Pred("lanes", <<"2">>)>>, mnid(1), mnid(3)) >>

SearchModes == {"drive"}

SelectionKeys(selection) == {selection.link[k].key : k \in DOMAIN selection.link}

\* RoadwayNetwork.selection_has_unique_link_id
selection_has_unique_link_id(selection) ==
    (UNIQUE_LINK_IDS \cap SelectionKeys(selection)) # {}

----------------------------------------------------------------------------
(* Link queries.  A query string is modelled by its clauses (ANDed; the    *)
(* values of one clause are ORed) and the modal-access columns (ORed).     *)

\* ProjectCard.build_link_selection_query: with a unique link identifier in
\* the selection only the unique-identifier predicates are queried and no
\* modal requirement is added; otherwise every predicate not ignored, and
\* one of the mode's access columns equal to 1.
build_link_selection_query(selection, unique_link_ids, mode, ignore) ==
    LET uniq == (unique_link_ids \cap SelectionKeys(selection)) # {}
        Kept(p) == /\ p.key \notin ignore
                   /\ uniq => p.key \in unique_link_ids
    IN  [clauses |-> SelectSeq(selection.link, Kept),
         mode |-> IF uniq THEN <<>> ELSE mode]

DefaultMode == <<"drive_access">>

\* str.replace("name", "ref") on the query string: every occurrence of the
\* token, in a column name or in a quoted value, is replaced.
ReplaceNameByRef(q) ==
    LET R(t) == IF t = "name" THEN "ref" ELSE t
        RV(key, v) == IF key \in {"model_link_id"} THEN v ELSE R(v)
    IN  [clauses |-> [k \in DOMAIN q.clauses |->
                        [key |-> R(q.clauses[k].key),
                         vals |-> [j \in DOMAIN q.clauses[k].vals |->
                                     RV(q.clauses[k].key, q.clauses[k].vals[j])]]],
         mode |-> q.mode]

\* the columns whose predicate values are strings: the query tests them
\* with str.contains, the others with ==
StrCols == {"name", "ref"}

\* one row against the query
RowMatches(row, q) ==
    /\ \A k \in DOMAIN q.clauses :
          \E j \in DOMAIN q.clauses[k].vals :
              IF q.clauses[k].key \in StrCols
              THEN q.clauses[k].vals[j] \in Range(row[q.clauses[k].key])
              ELSE row[q.clauses[k].key] = q.clauses[k].vals[j]
    /\ q.mode # <<>> => \E m \in DOMAIN q.mode : row[q.mode[m]] = 1

\* df.query(sel_query, engine="python"): a new frame of the matching rows
Query(df, q) == LET T(row) == RowMatches(row, q) IN SelectSeq(df, T)

----------------------------------------------------------------------------
(* Validation and endpoint resolution.  An operation that can raise returns *)
(* a record whose field err names the exception ("" when it returns).       *)

\* RoadwayNetwork.validate_selection
validate_selection(selection, ncols, lcols) ==
    IF ~(SELECTION_REQUIRES \subseteq selection.keys) THEN "KeyError"
    ELSE LET linkErr == \E k \in DOMAIN selection.link :
                            selection.link[k].key \notin lcols
             unique_link_id == (UNIQUE_LINK_IDS \cap SelectionKeys(selection)) # {}
             BadNodeKey(d) == \E k \in DOMAIN d :
                                 d[k][1] \notin ncols /\ d[k][1] # NODE_FOREIGN_KEY
         IN  IF ~unique_link_id /\ "A" \notin selection.keys THEN "KeyError"
             ELSE IF ~unique_link_id /\ "B" \notin selection.keys THEN "KeyError"
             ELSE IF linkErr \/ (~unique_link_id
                                  /\ (BadNodeKey(selection.A) \/ BadNodeKey(selection.B)))
                  THEN "ValueError"
             ELSE ""

\* nodes_df[nodes_df[key] == value][node_foreign_key].values
NodeKeysMatching(nodes, key, value) ==
    LET T(row) == row[key] = value
        m == SelectSeq(nodes, T)
    IN  [k \in DOMAIN m |-> m[k].model_node_id]

\* one end of orig_dest_nodes_foreign_key: the first matching node is taken
ResolveNode(nodes, d) ==
    LET key == d[1][1]
        val == d[1][2]
    IN  IF key # NODE_FOREIGN_KEY
        THEN LET ids == NodeKeysMatching(nodes, key, val)
             IN  IF ids = <<>> THEN [err |-> "IndexError", id |-> 0]
                 ELSE [err |-> "", id |-> ids[1]]
        ELSE [err |-> "", id |-> val]

\* RoadwayNetwork.orig_dest_nodes_foreign_key; `raise ("...")` raises a
\* TypeError, since a str is no exception
orig_dest_nodes_foreign_key(selection, nodes) ==
    IF Len(selection.A) > 1 \/ Len(selection.B) > 1
    THEN [err |-> "TypeError", A_id |-> 0, B_id |-> 0]
    ELSE IF Len(selection.A) = 0 \/ Len(selection.B) = 0
    THEN [err |-> "StopIteration", A_id |-> 0, B_id |-> 0]
    ELSE LET a == ResolveNode(nodes, selection.A)
             b == ResolveNode(nodes, selection.B)
         IN  IF a.err # "" THEN [err |-> a.err, A_id |-> 0, B_id |-> 0]
             ELSE IF b.err # "" THEN [err |-> b.err, A_id |-> 0, B_id |-> 0]
             ELSE [err |-> "", A_id |-> a.id, B_id |-> b.id]

\* RoadwayNetwork.build_selection_key: the query is built with the default
\* mode, whatever the search mode of the call
build_selection_key(selection, nodes) ==
    LET sel_query == build_link_selection_query(selection, UNIQUE_LINK_IDS,
                                                DefaultMode, {})
    IN  IF selection_has_unique_link_id(selection)
        THEN [err |-> "", key |-> <<sel_query>>]
        ELSE LET od == orig_dest_nodes_foreign_key(selection, nodes)
             IN  IF od.err # "" THEN [err |-> od.err, key |-> <<>>]
                 ELSE [err |-> "", key |-> <<sel_query, od.A_id, od.B_id>>]

----------------------------------------------------------------------------
(* Path search.  A candidate is a link row with its column "i": <<n>> for  *)
(* the number n, <<>> for NaN (a row appended from a frame without "i").   *)

NaN == <<>>

Cand(row, i) == [row |-> row, i |-> i]

\* candidate_links["i"] = 0 on the frame the query returned
TagZero(df) == [k \in DOMAIN df |-> Cand(df[k], <<0>>)]

\* RoadwayNetwork._get_fk_nodes
_get_fk_nodes(cands) ==
    {cands[k].row.A : k \in DOMAIN cands} \cup {cands[k].row.B : k \in DOMAIN cands}

\* nodes_df.loc[labels]: the rows labelled so; a KeyError for a missing label
NodesLoc(nodes, labels) ==
    IF \E l \in labels : \A k \in DOMAIN nodes : nodes[k].index # l
    THEN [err |-> "KeyError", rows |-> <<>>]
    ELSE LET T(row) == row.index \in labels
         IN  [err |-> "", rows |-> SelectSeq(nodes, T)]

\* what `_links_df.loc[mask, "i"] = i` would do: the link table gets the
\* column "i"
LocAssignI(tbl, ids, i) == [tbl EXCEPT !.columns = @ \cup {"i"}]

\* `_links_df[_links_df.model_link_id.isin(ids)]["i"] = i` assigns to the
\* temporary frame the boolean indexing returns: the link table is not written
ChainedAssignI(tbl, ids, i) == tbl

\* a round that keeps the links it adds and drops the frame it was given
_add_breadth_only(cands, nodes, links, i) ==
    LET cn == NodesLoc(nodes, _get_fk_nodes(cands)).rows
        refs == (((UNION {cn[k].outboundReferenceIds : k \in DOMAIN cn})
                  \cup (UNION {cn[k].inboundReferenceIds : k \in DOMAIN cn}))
                 \ {cands[k].row.shstReferenceId : k \in DOMAIN cands})
                \ {NoRef}
        ToAdd(row) == row.shstReferenceId \in refs
        to_add == SelectSeq(links, ToAdd)
    IN  [err |-> "", cands |-> [k \in DOMAIN to_add |-> Cand(to_add[k], NaN)],
         refs |-> refs]

\* path_search._add_breadth
_add_breadth(cands, nodes, links, i) ==
    LET Widened(loc) ==
            LET cn == loc.rows
                refs == (((UNION {cn[k].outboundReferenceIds : k \in DOMAIN cn})
                          \cup (UNION {cn[k].inboundReferenceIds : k \in DOMAIN cn}))
                         \ {cands[k].row.shstReferenceId : k \in DOMAIN cands})
                        \ {NoRef}
                ToAdd(row) == row.shstReferenceId \in refs
                Added(to_add) ==
                    [err |-> "",
                     cands |-> cands \o [k \in DOMAIN to_add |-> Cand(to_add[k], NaN)],
                     refs |-> refs]
            IN  IF loc.err # "" THEN [err |-> loc.err, cands |-> cands, refs |-> {}]
                ELSE IF \E k \in DOMAIN cn : cn[k].refs_nan
                THEN [err |-> "TypeError", cands |-> cands, refs |-> {}]
                ELSE Added(SelectSeq(links, ToAdd))
    IN  Widened(NodesLoc(nodes, _get_fk_nodes(cands)))

----------------------------------------------------------------------------
(* Shortest path.  The graph has an edge per candidate link.               *)

Succ(E, u) == {e[2] : e \in {x \in E : x[1] = u}}

\* the simple paths of the graph that extend `path` to D
RECURSIVE PathsFrom(_, _, _)
PathsFrom(path, D, E) ==
    IF path[Len(path)] = D THEN {path}
    ELSE UNION {PathsFrom(Append(path, v), D, E) :
                    v \in Succ(E, path[Len(path)]) \ Range(path)}

Min(S) == CHOOSE x \in S : \A y \in S : x <= y

\* graph_links_df["weight"] = 1 + i * weight_factor; of parallel links the
\* lightest counts
EdgeWeight(cands, factor, u, v) ==
    Min({1 + cands[k].i[1] * factor :
            k \in {j \in DOMAIN cands : cands[j].row.A = u /\ cands[j].row.B = v}})

PathWeight(cands, factor, p) ==
    SumSeq([k \in 1..(Len(p) - 1) |-> EdgeWeight(cands, factor, p[k], p[k + 1])])

\* nx.shortest_path(G, O_id, D_id, weight="weight"): a lightest path; ties
\* are the library's to break, and so is the order of NaN weights, under
\* which any simple path may come out
Routes(cands, factor, O_id, D_id) ==
    LET E == {<<cands[k].row.A, cands[k].row.B>> : k \in DOMAIN cands}
        paths == PathsFrom(<<O_id>>, D_id, E)
    IN  IF \E k \in DOMAIN cands : cands[k].i = NaN THEN paths
        ELSE {p \in paths : \A q \in paths :
                 PathWeight(cands, factor, p) <= PathWeight(cands, factor, q)}

\* RoadwayNetwork.shortest_path; routes = {} stands for "no path"
shortest_path(cands, O_id, D_id, nodes, weight_factor) ==
    LET nl == _get_fk_nodes(cands)
    IN  IF O_id \notin nl \/ D_id \notin nl
        THEN [err |-> "ValueError", routes |-> {}]
        ELSE IF NodesLoc(nodes, nl).err # ""
        THEN [err |-> "KeyError", routes |-> {}]
        ELSE [err |-> "", routes |-> Routes(cands, weight_factor, O_id, D_id)]

\* graph_links_df[A.isin(sp_route) & B.isin(sp_route)]
RouteLinks(cands, route) ==
    LET T(c) == c.row.A \in Range(route) /\ c.row.B \in Range(route)
    IN  SelectSeq(cands, T)

\* the first loop of path_search: widen until both ends are touched
RECURSIVE WidenToEnds(_, _, _, _, _, _, _)
WidenToEnds(cands, O_id, D_id, nodes, links, i, rounds) ==
    LET nl == _get_fk_nodes(cands)
        Widened(r) ==
            IF r.err # ""
            THEN [err |-> r.err, cands |-> cands, i |-> i + 1, rounds |-> rounds]
            ELSE WidenToEnds(r.cands, O_id, D_id, nodes, links, i + 1,
                             Append(rounds, [i |-> i + 1, refs |-> r.refs,
                                             before |-> cands, after |-> r.cands]))
    IN  IF (O_id \notin nl \/ D_id \notin nl) /\ i <= SEARCH_BREADTH
        THEN Widened(_add_breadth(cands, nodes, links, i + 1))
        ELSE [err |-> "", cands |-> cands, i |-> i, rounds |-> rounds]

\* the second loop of path_search: widen while no path is found
RECURSIVE WidenToPath(_, _, _, _, _, _, _, _)
WidenToPath(cands, O_id, D_id, nodes, links, i, rounds, sp_calls) ==
    LET Routed(r, sp, rs) ==
            IF sp.err # ""
            THEN [err |-> sp.err, cands |-> r.cands, i |-> i + 1, rounds |-> rs,
                  routes |-> {}, sp_calls |-> sp_calls + 1]
            ELSE IF sp.routes # {}
            THEN [err |-> "", cands |-> r.cands, i |-> i + 1, rounds |-> rs,
                  routes |-> sp.routes, sp_calls |-> sp_calls + 1]
            ELSE WidenToPath(r.cands, O_id, D_id, nodes, links, i + 1, rs,
                             sp_calls + 1)
        Widened(r) ==
            IF r.err # ""
            THEN [err |-> r.err, cands |-> cands, i |-> i + 1, rounds |-> rounds,
                  routes |-> {}, sp_calls |-> sp_calls]
            ELSE Routed(r, shortest_path(r.cands, O_id, D_id, nodes, SP_WEIGHT_FACTOR),
                        Append(rounds, [i |-> i + 1, refs |-> r.refs,
                                        before |-> cands, after |-> r.cands]))
    IN  IF i <= MAX_SEARCH_BREADTH
        THEN Widened(_add_breadth(cands, nodes, links, i + 1))
        ELSE [err |-> "NoPathFound", cands |-> cands, i |-> i, rounds |-> rounds,
              routes |-> {}, sp_calls |-> sp_calls]

\* RoadwayNetwork.path_search.  The weight_factor it is given is not passed
\* on: shortest_path runs with its default, SP_WEIGHT_FACTOR.
path_search(cands, O_id, D_id, nodes, links, weight_factor) ==
    LET Routed(w, sp) ==
            IF sp.err # ""
            THEN [err |-> sp.err, cands |-> w.cands, i |-> w.i, rounds |-> w.rounds,
                  routes |-> {}, sp_calls |-> 1]
            ELSE IF sp.routes # {}
            THEN [err |-> "", cands |-> w.cands, i |-> w.i, rounds |-> w.rounds,
                  routes |-> sp.routes, sp_calls |-> 1]
            ELSE WidenToPath(w.cands, O_id, D_id, nodes, links, w.i, w.rounds, 1)
        Widened(w) ==
            IF w.err # ""
            THEN [err |-> w.err, cands |-> w.cands, i |-> w.i, rounds |-> w.rounds,
                  routes |-> {}, sp_calls |-> 0]
            ELSE Routed(w, shortest_path(w.cands, O_id, D_id, nodes, SP_WEIGHT_FACTOR))
    IN  Widened(WidenToEnds(cands, O_id, D_id, nodes, links, 0, <<>>))

----------------------------------------------------------------------------
(* select_roadway_features *)

\* a stored selection that starts out as found
NewSelectionFound ==
    [selection_found |-> TRUE, candidate_links |-> <<>>, selected_links |-> <<>>,
     route |-> <<>>, links |-> <<>>]

\* a stored selection; a key the code has not set yet holds <<>>
NewSelection ==
    [selection_found |-> FALSE, candidate_links |-> <<>>, selected_links |-> <<>>,
     route |-> <<>>, links |-> <<>>]

\* a cache that stores nothing
PutNothing(cache, key, entry) == cache

\* a reselection that keeps every path link
QueryKeepsAll(cands, q) == cands

\* a cache that holds the newest entry only
PutAlone(cache, key, entry) == [k \in {key} |-> entry]

\* self.selections[sel_key] = entry
Put(cache, key, entry) ==
    [k \in DOMAIN cache \cup {key} |-> IF k = key THEN entry ELSE cache[k]]

\* frame.query(q) on a frame of candidates
QueryCands(cands, q) == LET T(c) == RowMatches(c.row, q) IN SelectSeq(cands, T)

CandIndex(cands) == [k \in DOMAIN cands |-> cands[k].row.index]

\* what one call does: the exception it raises ("" when it returns), the
\* list it returns, the cache it leaves, and counts of the work it did
Outcome(err, msg, result, cache, key, hit, queries, ps) ==
    [err |-> err, msg |-> msg, result |-> result, selections |-> cache,
     key |-> key, hit |-> hit, queries |-> queries,
     path_searches |-> IF ps = <<>> THEN 0 ELSE 1,
     rounds |-> IF ps = <<>> THEN <<>> ELSE ps[1].rounds,
     i |-> IF ps = <<>> THEN 0 ELSE ps[1].i,
     sp_calls |-> IF ps = <<>> THEN 0 ELSE ps[1].sp_calls,
     route |-> IF ps = <<>> THEN <<>> ELSE ps[1].route,
     path_links |-> IF ps = <<>> THEN <<>> ELSE ps[1].links,
     cands |-> IF ps = <<>> THEN <<>> ELSE ps[1].cands]

\* a retry whatever the predicates of the selection are
NameKeyAssumed(selection) == TRUE

\* any("name" in d for d in selection["link"])
selection_has_name_key(selection) ==
    \E k \in DOMAIN selection.link : selection.link[k].key = "name"

\* the part of select_roadway_features after the cache lookup
SearchSelection(selection, search_mode, cache, sel_key, nodes, links, lcols) ==
    LET unique == selection_has_unique_link_id(selection)
        sel_query == build_link_selection_query(selection, UNIQUE_LINK_IDS,
                         MODES_TO_NETWORK_LINK_VARIABLES[search_mode], {})
        has_name == selection_has_name_key(selection)
        Failed(c) == Put(cache, sel_key, [NewSelection EXCEPT !.candidate_links = c])
        resel_query == build_link_selection_query(selection, UNIQUE_LINK_IDS,
                           MODES_TO_NETWORK_LINK_VARIABLES[search_mode], {"name"})
        PsInfo(ps, route, plinks) ==
            << [rounds |-> ps.rounds, i |-> ps.i, sp_calls |-> ps.sp_calls,
                route |-> route, links |-> plinks, cands |-> ps.cands] >>
        Found(nq, ps, route, plinks, selected) ==
            Outcome("", "", CandIndex(selected),
                    Put(cache, sel_key,
                        [selection_found |-> TRUE, candidate_links |-> ps.cands,
                         selected_links |-> selected, route |-> route,
                         links |-> plinks]),
                    sel_key, FALSE, nq, PsInfo(ps, route, plinks))
        Reselect(nq, ps, route, plinks) ==
            Found(nq, ps, route, plinks,
                  IF Len(selection.link) = 1 THEN plinks
                  ELSE QueryCands(plinks, resel_query))
        Searched(cands, nq, ps) ==
            IF ps.err # ""
            THEN {Outcome(ps.err, "", <<>>, Failed(cands), sel_key, FALSE, nq,
                          PsInfo(ps, <<>>, <<>>))}
            ELSE {Reselect(nq, ps, route, RouteLinks(ps.cands, route))
                  : route \in ps.routes}
        Resolved(cands, nq, od) ==
            Searched(cands, nq,
                     path_search(cands, od.A_id, od.B_id, nodes, links,
                                 SP_WEIGHT_FACTOR))
        Candidates(cands, nq) ==
            IF unique
            THEN {Outcome("", "", CandIndex(cands),
                          Put(cache, sel_key,
                              [NewSelection EXCEPT !.candidate_links = cands,
                                                   !.selected_links = cands,
                                                   !.selection_found = TRUE]),
                          sel_key, FALSE, nq, <<>>)}
            ELSE Resolved(cands, nq, orig_dest_nodes_foreign_key(selection, nodes))
        Retried(c2) ==
            IF c2 = <<>>
            THEN {Outcome("Exception", "no_candidate_links", <<>>, Failed(c2), sel_key,
                          FALSE, 2, <<>>)}
            ELSE Candidates(c2, 2)
        Queried(c1) ==
            IF c1 # <<>> THEN Candidates(c1, 1)
            ELSE IF unique
            THEN {Outcome("Exception", "no_unique_links", <<>>, Failed(c1), sel_key,
                          FALSE, 1, <<>>)}
            ELSE IF ~has_name
            THEN {Outcome("Exception", "name_not_in_search", <<>>, Failed(c1), sel_key,
                          FALSE, 1, <<>>)}
            ELSE IF "ref" \notin lcols
            THEN {Outcome("Exception", "ref_not_in_network", <<>>, Failed(c1), sel_key,
                          FALSE, 1, <<>>)}
            ELSE Retried(TagZero(Query(links, ReplaceNameByRef(sel_query))))
    IN  Queried(TagZero(Query(links, sel_query)))

\* RoadwayNetwork.select_roadway_features: the outcomes a call can have
select_roadway_features(selection, search_mode, force_search, cache, nodes, links, ncols, lcols) ==
    LET Keyed(bk) ==
            IF bk.err # "" THEN {Outcome(bk.err, "", <<>>, cache, <<>>, FALSE, 0, <<>>)}
            ELSE IF bk.key \in DOMAIN cache /\ ~force_search
            THEN IF cache[bk.key].selection_found
                 THEN {Outcome("", "", CandIndex(cache[bk.key].selected_links), cache,
                               bk.key, TRUE, 0, <<>>)}
                 ELSE {Outcome("Exception", "previously_queried", <<>>, cache, bk.key,
                               TRUE, 0, <<>>)}
            ELSE SearchSelection(selection, search_mode, cache, bk.key, nodes, links,
                                 lcols)
        Validated(v) ==
            IF v # "" THEN {Outcome(v, "", <<>>, cache, <<>>, FALSE, 0, <<>>)}
            ELSE Keyed(build_selection_key(selection, nodes))
    IN  Validated(validate_selection(selection, ncols, lcols))

\* the writes _add_breadth makes to the link table, round by round
RECURSIVE LinksAfterRounds(_, _)
LinksAfterRounds(tbl, rounds) ==
    IF rounds = <<>> THEN tbl
    ELSE LinksAfterRounds(ChainedAssignI(tbl, Head(rounds).refs, Head(rounds).i),
                          Tail(rounds))

\* the round that appended row k of the candidate frame: 0 for a row of the
\* frame the query returned
AddedIn(rounds, k) ==
    IF rounds = <<>> \/ k <= Len(rounds[1].before) THEN 0
    ELSE rounds[CHOOSE r \in DOMAIN rounds :
                    Len(rounds[r].before) < k /\ k <= Len(rounds[r].after)].i

\* the candidate frame a path search ends with: per row the link, the cell
\* of column "i" and the round that appended the row
CandTags(cands, rounds) ==
    [k \in DOMAIN cands |->
        [link |-> cands[k].row.model_link_id, i |-> cands[k].i,
         round |-> AddedIn(rounds, k)]]

\* the links of the candidate frame before and after each round
RoundLinks(rounds) ==
    LET Ids(c) == [k \in DOMAIN c |-> c[k].row.model_link_id]
    IN  [r \in DOMAIN rounds |->
            [before |-> Ids(rounds[r].before), after |-> Ids(rounds[r].after)]]

\* a call of select_roadway_features with a selection, s its position in
\* Selections (0 for a selection not in the list)
SelectWith(selection, s, search_mode, force_search) ==
    /\ steps < MaxSteps
    /\ \E o \in select_roadway_features(selection, search_mode, force_search,
                                        selections, nodes_df.rows, links_df.rows,
                                        nodes_df.columns, links_df.columns) :
          /\ selections' = o.selections
          /\ links_df' = LinksAfterRounds(links_df, o.rounds)
          /\ lastCall' = [op |-> "select", sel |-> s, mode |-> search_mode,
               force |-> force_search,
               unique |-> selection_has_unique_link_id(selection),
               err |-> o.err, msg |-> o.msg, result |-> o.result,
               key |-> o.key, hit |-> o.hit, queries |-> o.queries,
               path_searches |-> o.path_searches, i |-> o.i,
               sp_calls |-> o.sp_calls, route |-> o.route,
               path_links |-> o.path_links, nrounds |-> Len(o.rounds),
               cands |-> CandTags(o.cands, o.rounds),
               rounds |-> RoundLinks(o.rounds)]
    /\ prevCall' = lastCall
    /\ steps' = steps + 1
    /\ UNCHANGED <<nodes_df, shapes_df, db>>

Select(s, search_mode, force_search) ==
    SelectWith(Selections[s], s, search_mode, force_search)

----------------------------------------------------------------------------
(* delete_roadway_feature_change *)

\* a call's arguments: links = {"model_link_id": link_vals} or None,
\* nodes = {"model_node_id": node_vals} or None
DeleteArgs(has_links, link_vals, has_nodes, node_vals, ignore_missing) ==
    [has_links |-> has_links, link_vals |-> link_vals, has_nodes |-> has_nodes,
     node_vals |-> node_vals, ignore_missing |-> ignore_missing]

DeleteInputs ==
    << DeleteArgs(TRUE, {3}, FALSE, {}, TRUE),
       DeleteArgs(TRUE, {2}, FALSE, {}, TRUE),
       DeleteArgs(TRUE, {1, 9}, FALSE, {}, FALSE),
       DeleteArgs(FALSE, {}, TRUE, {3}, TRUE),
       DeleteArgs(FALSE, {}, TRUE, {9}, TRUE) >>

\* RoadwayNetwork.delete_roadway_feature_change.  The message on missing
\* nodes formats the variable missing_links, which is unbound when links is
\* None; the ValueError on missing items is raised after the deletions.
delete_roadway_feature_change(d, nodes, links, shapes) ==
    LET missing_links == {v \in d.link_vals :
                             \A k \in DOMAIN links.rows : links.rows[k].model_link_id # v}
        Deleted(row) == row.model_link_id \in d.link_vals
        Kept(row) == ~Deleted(row)
        deleted_links == SelectSeq(links.rows, Deleted)
        shapes_to_delete == {deleted_links[k].id : k \in DOMAIN deleted_links}
        KeptShape(row) == row.id \notin shapes_to_delete
        links1 == IF d.has_links
                  THEN [links EXCEPT !.rows = SelectSeq(links.rows, Kept)] ELSE links
        shapes1 == IF d.has_links
                   THEN [shapes EXCEPT !.rows = SelectSeq(shapes.rows, KeptShape)]
                   ELSE shapes
        missing_nodes == {v \in d.node_vals :
                             \A k \in DOMAIN nodes.rows : nodes.rows[k].model_node_id # v}
        KeptNode(row) == row.model_node_id \notin d.node_vals
        nodes1 == IF d.has_nodes
                  THEN [nodes EXCEPT !.rows = SelectSeq(nodes.rows, KeptNode)] ELSE nodes
        missing == (d.has_links /\ missing_links # {})
                   \/ (d.has_nodes /\ missing_nodes # {})
    IN  IF d.has_nodes /\ missing_nodes # {} /\ ~d.has_links
        THEN [err |-> "NameError", nodes |-> nodes, links |-> links1, shapes |-> shapes1]
        ELSE [err |-> IF missing /\ ~d.ignore_missing THEN "ValueError" ELSE "",
              nodes |-> nodes1, links |-> links1, shapes |-> shapes1]

Delete(d) ==
    /\ steps < MaxSteps
    /\ LET r == delete_roadway_feature_change(DeleteInputs[d], nodes_df, links_df,
                                              shapes_df)
       IN  /\ nodes_df' = r.nodes
           /\ links_df' = r.links
           /\ shapes_df' = r.shapes
           /\ lastCall' = [op |-> "delete", args |-> d, err |-> r.err]
    /\ prevCall' = lastCall
    /\ steps' = steps + 1
    /\ UNCHANGED <<selections, db>>

----------------------------------------------------------------------------
(* create_managed_lane_network *)

\* DataFrame.reset_index(): the old index becomes a column (named after the
\* index, else "index", else "level_0") and the rows are numbered anew; a
\* ValueError when that column exists already.  Only the presence of the
\* column is modelled, not its cells.
IndexColumn(tbl) ==
    IF tbl.index_name # "" THEN tbl.index_name
    ELSE IF "index" \notin tbl.columns THEN "index" ELSE "level_0"

reset_index(tbl) ==
    IF IndexColumn(tbl) \in tbl.columns
    THEN [err |-> "ValueError", tbl |-> tbl]
    ELSE [err |-> "",
          tbl |-> Table(RangeIndexed(tbl.rows), tbl.columns \cup {IndexColumn(tbl)}, "")]

\* the cell an attribute of a managed-lane link is blanked to
BlankCell(attr) == IF attr \in {"lanes", "managed", "roadway"} THEN "" ELSE <<>>

\* utils.offset_location_reference: every point moved sideways
offset_location_reference(loc) == [k \in DOMAIN loc |-> <<loc[k][1], loc[k][2] + 1>>]

\* utils.create_unique_shape_id of utils.create_line_string: the hash of the
\* line string through the points, one id per geometry
create_unique_shape_id(loc) == loc

\* the managed-lane copy of a link (lines 2294-2326); the network of the
\* model has no ML_ shadow columns
ManagedLaneLink(row, columns, keep_same, required, node_scalar, link_scalar) ==
    LET named == IF "name" \in columns
                 THEN [row EXCEPT !.name = <<"Managed Lane ">> \o row.name] ELSE row
        blanked == [f \in DOMAIN named |->
                      IF f \in columns /\ f \notin keep_same /\ f \notin required
                      THEN BlankCell(f) ELSE named[f]]
        loc == offset_location_reference(blanked.locationReferences)
    IN  [blanked EXCEPT !.managed = "1",
                        !.A = @ + node_scalar,
                        !.B = @ + node_scalar,
                        !.model_link_id = @ + link_scalar,
                        !.locationReferences = loc,
                        !.id = create_unique_shape_id(loc)]

\* a row of create_dummy_connector_links; the cells it does not set are NaN
Connector(ix, a, b, name, ref, roadway, id, loc, drive_access) ==
    [index |-> ix, model_link_id |-> id, A |-> a, B |-> b, name |-> name,
     ref |-> ref, lanes |-> "1", drive_access |-> drive_access,
     managed |-> "NaN", roadway |-> roadway, shstReferenceId |-> NaNCell,
     locationReferences |-> loc, id |-> create_unique_shape_id(loc)]

\* RoadwayNetwork.create_dummy_connector_links with its default arguments:
\* access_roadway and egress_roadway are both "ml_access"
AccessLinks(gp, ml, columns, access_roadway) ==
    [k \in DOMAIN gp |->
        Connector(k - 1, gp[k].A, ml[k].A, <<"Access Dummy ">> \o gp[k].name,
                  IF "ref" \in columns THEN gp[k].ref ELSE <<>>,
                  access_roadway,
                  gp[k].model_link_id + ml[k].model_link_id + 1,
                  <<gp[k].locationReferences[1], ml[k].locationReferences[1]>>,
                  gp[k].drive_access)]

\* no egress connector built
NoEgressLinks(gp, ml, columns, egress_roadway) == <<>>

EgressLinks(gp, ml, columns, egress_roadway) ==
    [k \in DOMAIN gp |->
        Connector(k - 1, ml[k].B, gp[k].B, <<"Egress Dummy ">> \o gp[k].name,
                  IF "ref" \in columns THEN gp[k].ref ELSE <<>>,
                  egress_roadway,
                  gp[k].model_link_id + ml[k].model_link_id + 2,
                  <<ml[k].locationReferences[2], gp[k].locationReferences[2]>>,
                  gp[k].drive_access)]

\* drop_duplicates(subset=["A", "B"], keep="first")
DropDuplicateABKeepFirst(rows) ==
    LET keep == {k \in DOMAIN rows :
                    \A j \in DOMAIN rows :
                        j < k => <<rows[j].A, rows[j].B>> # <<rows[k].A, rows[k].B>>}
        Ix(k) == k \in keep
        ks == SelectSeq([k \in DOMAIN rows |-> k], Ix)
    IN  [k \in DOMAIN ks |-> rows[ks[k]]]

\* drop_duplicates(subset=["A", "B"], keep="last")
DropDuplicateABKeepLast(rows) ==
    LET keep == {k \in DOMAIN rows :
                    \A j \in DOMAIN rows :
                        j > k => <<rows[j].A, rows[j].B>> # <<rows[k].A, rows[k].B>>}
        Ix(k) == k \in keep
        ks == SelectSeq([k \in DOMAIN rows |-> k], Ix)
    IN  [k \in DOMAIN ks |-> rows[ks[k]]]

\* drop_duplicates(subset=shape_foreign_key, keep="first")
DropDuplicateIdKeepFirst(rows) ==
    LET keep == {k \in DOMAIN rows :
                    \A j \in DOMAIN rows : j < k => rows[j].id # rows[k].id}
        Ix(k) == k \in keep
        ks == SelectSeq([k \in DOMAIN rows |-> k], Ix)
    IN  [k \in DOMAIN ks |-> rows[ks[k]]]

\* a node row appended for a managed lane: the cells not given are NaN
NewNode(n, point) ==
    [index |-> 0, model_node_id |-> n, osm_node_id |-> NaNCell,
     outboundReferenceIds |-> {}, inboundReferenceIds |-> {},
     refs_nan |-> TRUE, drive_access |-> 1, geometry |-> point]

\* lines 2363-2375: a node per managed-lane A node, present already or not
RECURSIVE AppendANodes(_, _, _)
AppendANodes(nodes, a_nodes, out_links) ==
    IF a_nodes = <<>> THEN [err |-> "", tbl |-> nodes]
    ELSE LET a == Head(a_nodes)
             T(row) == row.A = a
             from == SelectSeq(out_links, T)
         IN  IF from = <<>> THEN [err |-> "IndexError", tbl |-> nodes]
             ELSE AppendANodes(
                    Table(RangeIndexed(Append(nodes.rows,
                              NewNode(a, from[1].locationReferences[1]))),
                          nodes.columns, ""),
                    Tail(a_nodes), out_links)

\* lines 2377-2390: a node per managed-lane B node not yet in the table
RECURSIVE AppendBNodes(_, _, _)
AppendBNodes(nodes, b_nodes, out_links) ==
    IF b_nodes = <<>> THEN [err |-> "", tbl |-> nodes]
    ELSE LET b == Head(b_nodes)
             T(row) == row.B = b
             into == SelectSeq(out_links, T)
             present == \E k \in DOMAIN nodes.rows : nodes.rows[k].model_node_id = b
         IN  IF present THEN AppendBNodes(nodes, Tail(b_nodes), out_links)
             ELSE IF into = <<>> THEN [err |-> "IndexError", tbl |-> nodes]
             ELSE AppendBNodes(
                    Table(RangeIndexed(Append(nodes.rows,
                              NewNode(b, into[1].locationReferences[2]))),
                          nodes.columns, ""),
                    Tail(b_nodes), out_links)

HasAccessLinks(links) ==
    \E k \in DOMAIN links.rows : links.rows[k].roadway = "ml_access"

\* RoadwayNetwork.create_managed_lane_network up to the tables it builds
\* (lines 2248-2417); guard says that it returned the network as it is.
\* X and Y are read off the geometry of every node (lines 2392-2393), which
\* is an AttributeError when a geometry cell holds a string.
managed_lane_tables(nodes, links, shapes) ==
    LET NonMl(row) == row.managed = "0"
        IsMl(row) == row.managed = "1"
        non_ml_links == SelectSeq(links.rows, NonMl)
        managed == SelectSeq(links.rows, IsMl)
        gp_links == [k \in DOMAIN managed |-> [managed[k] EXCEPT !.managed = "0"]]
        ml_links == [k \in DOMAIN managed |->
                        ManagedLaneLink(managed[k], links.columns,
                                        KEEP_SAME_ATTRIBUTES_ML_AND_GP,
                                        MANAGED_LANES_REQUIRED_ATTRIBUTES,
                                        MANAGED_LANES_NODE_ID_SCALAR,
                                        MANAGED_LANES_LINK_ID_SCALAR)]
        access_links == AccessLinks(gp_links, ml_links, links.columns, "ml_access")
        egress_links == EgressLinks(gp_links, ml_links, links.columns, "ml_access")
        concat == gp_links \o ml_links \o access_links \o egress_links
                  \o non_ml_links
        out_links == DropDuplicateABKeepLast(concat)
        an == AppendANodes(nodes, [k \in DOMAIN ml_links |-> ml_links[k].A], out_links)
        bn == AppendBNodes(an.tbl, [k \in DOMAIN ml_links |-> ml_links[k].B], out_links)
        new == ml_links \o access_links \o egress_links
        new_shapes == [k \in DOMAIN new |->
                          Shape(new[k].index, create_unique_shape_id(new[k].locationReferences))]
        out_shapes == DropDuplicateIdKeepFirst(shapes.rows \o new_shapes)
        rl == reset_index([links EXCEPT !.rows = out_links])
        rn == reset_index(bn.tbl)
        rs == reset_index([shapes EXCEPT !.rows = out_shapes])
        \* out_nodes_df is self.nodes_df itself until a node is appended; the
        \* X and Y written to it are then written to the network's own table
        own_xy == IF managed = <<>>
                  THEN [nodes EXCEPT !.columns = @ \cup {"X", "Y"}] ELSE nodes
        Raise(e) == [err |-> e, guard |-> FALSE, nodes |-> nodes, links |-> links,
                     own_nodes |-> nodes,
                     shapes |-> shapes, n_gp |-> Len(gp_links), n_ml |-> Len(ml_links),
                     n_access |-> Len(access_links), n_egress |-> Len(egress_links),
                     concat |-> concat]
    IN  IF HasAccessLinks(links)
        THEN [err |-> "", guard |-> TRUE, nodes |-> nodes, links |-> links,
              own_nodes |-> nodes,
              shapes |-> shapes, n_gp |-> 0, n_ml |-> 0, n_access |-> 0, n_egress |-> 0,
              concat |-> <<>>]
        ELSE IF managed # <<>> /\ "access" \notin links.columns THEN Raise("KeyError")
        ELSE IF an.err # "" THEN Raise(an.err)
        ELSE IF bn.err # "" THEN Raise(bn.err)
        ELSE IF \E k \in DOMAIN bn.tbl.rows : bn.tbl.rows[k].geometry = <<>>
        THEN Raise("AttributeError")
        ELSE IF rl.err # "" THEN [Raise(rl.err) EXCEPT !.own_nodes = own_xy]
        ELSE IF rn.err # "" THEN [Raise(rn.err) EXCEPT !.own_nodes = own_xy]
        ELSE IF rs.err # "" THEN [Raise(rs.err) EXCEPT !.own_nodes = own_xy]
        ELSE [err |-> "", guard |-> FALSE, nodes |-> rn.tbl, links |-> rl.tbl,
              own_nodes |-> own_xy,
              shapes |-> rs.tbl, n_gp |-> Len(gp_links), n_ml |-> Len(ml_links),
              n_access |-> Len(access_links), n_egress |-> Len(egress_links),
              concat |-> concat]

\* every call replaces the tables of the network
TableReplaced(in_place, own, built) == built

\* lines 2419-2428: the table the network holds after the call
TableAfter(in_place, own, built) == IF in_place THEN built ELSE own

\* RoadwayNetwork.create_managed_lane_network: in place the tables of the
\* network are replaced and None is returned; otherwise a deep copy of the
\* network holding the tables is returned.  The node table of the network
\* has had X and Y rewritten from its geometry when no node was appended.
CreateManagedLaneNetwork(in_place) ==
    /\ steps < MaxSteps
    /\ LET r == managed_lane_tables(nodes_df, links_df, shapes_df)
       IN  /\ nodes_df' = TableAfter(in_place /\ r.err = "", r.own_nodes, r.nodes)
           /\ links_df' = TableAfter(in_place, links_df, r.links)
           /\ shapes_df' = TableAfter(in_place, shapes_df, r.shapes)
           /\ lastCall' = [op |-> "managed_lanes", in_place |-> in_place,
                           err |-> r.err, guard |-> r.guard,
                           returned |-> IF in_place \/ r.err # "" THEN <<>>
                                        ELSE <<[nodes_df |-> r.nodes,
                                                links_df |-> r.links,
                                                shapes_df |-> r.shapes]>>,
                           n_gp |-> r.n_gp, n_ml |-> r.n_ml,
                           n_access |-> r.n_access, n_egress |-> r.n_egress,
                           concat |-> r.concat]
    /\ prevCall' = lastCall
    /\ steps' = steps + 1
    /\ UNCHANGED <<selections, db>>

----------------------------------------------------------------------------
(* add_new_roadway_feature_change *)

\* the dictionaries of a call: a node gives its model_node_id (with X and Y),
\* a link its model_link_id, A, B, name, lanes, managed, roadway and
\* drive_access
AddLink(id, a, b, managed) == [model_link_id |-> id, A |-> a, B |-> b, managed |-> managed]

\* a call's arguments: nodes and links are lists of dictionaries or None
AddArgs(has_nodes, nodes, has_links, links) ==
    [has_nodes |-> has_nodes, nodes |-> nodes, has_links |-> has_links, links |-> links]

AddInputs ==
    << AddArgs(TRUE, <<5>>, TRUE, <<AddLink(7, 3, 5, "0")>>),
       AddArgs(TRUE, <<5, 2>>, FALSE, <<>>),
       AddArgs(FALSE, <<>>, TRUE, <<AddLink(7, 3, 1, "0"), AddLink(8, 1, 2, "0")>>),
       AddArgs(TRUE, <<5>>, TRUE, <<AddLink(7, 3, 1, "0"), AddLink(8, 1, 9, "0")>>),
       AddArgs(FALSE, <<>>, TRUE, <<AddLink(7, 3, 1, "1"), AddLink(8, 3, 1, "0")>>),
       AddArgs(FALSE, <<>>, TRUE, <<AddLink(7, 9, 1, "0")>>) >>

\* _add_dict_to_df for a node: the columns the dictionary does not give hold ""
AddedNode(n) ==
    [index |-> 0, model_node_id |-> n, osm_node_id |-> <<>>,
     outboundReferenceIds |-> {}, inboundReferenceIds |-> {},
     refs_nan |-> FALSE, drive_access |-> 1, geometry |-> <<>>]

\* utils.create_location_reference_from_nodes: the points of the two nodes
create_location_reference_from_nodes(a, b) == <<Pt(a), Pt(b)>>

\* _add_dict_to_df for a link, with the location reference, geometry and
\* shape id computed for the rows flagged new_link (lines 1733-1757)
AddedLink(link) ==
    LET loc == create_location_reference_from_nodes(link.A, link.B)
    IN  [index |-> 0, model_link_id |-> link.model_link_id, A |-> link.A, B |-> link.B,
         name |-> <<"New">>, ref |-> <<>>, lanes |-> "1", drive_access |-> 1,
         managed |-> link.managed, roadway |-> "primary", shstReferenceId |-> <<>>,
         locationReferences |-> loc, id |-> create_unique_shape_id(loc)]

\* lines 1678-1681: the query for the node id is not empty
NodeExists(nodes, n) == \E k \in DOMAIN nodes.rows : nodes.rows[k].model_node_id = n

\* no link is found in the table
LinkNeverExists(links, a, b) == FALSE

\* lines 1699-1701: the query for A and B is not empty
LinkExists(links, a, b) ==
    \E k \in DOMAIN links.rows : links.rows[k].A = a /\ links.rows[k].B = b

\* RoadwayNetwork.add_new_roadway_feature_change: all nodes are checked, then
\* all nodes are appended; then all links are checked against the tables as
\* they are by then, then all links are appended and their shapes with them
add_new_roadway_feature_change(a, nodes, links, shapes) ==
    LET bad_node == a.has_nodes
                    /\ \E k \in DOMAIN a.nodes : NodeExists(nodes, a.nodes[k])
        nodes1 == IF a.has_nodes
                  THEN Table(RangeIndexed(nodes.rows
                                \o [k \in DOMAIN a.nodes |-> AddedNode(a.nodes[k])]),
                             nodes.columns, "")
                  ELSE nodes
        bad_link == a.has_links
                    /\ \E k \in DOMAIN a.links :
                          \/ LinkExists(links, a.links[k].A, a.links[k].B)
                          \/ ~NodeExists(nodes1, a.links[k].A)
                          \/ ~NodeExists(nodes1, a.links[k].B)
        added == [k \in DOMAIN a.links |-> AddedLink(a.links[k])]
        rows1 == RangeIndexed(links.rows \o added)
        links1 == IF a.has_links THEN Table(rows1, links.columns, "") ELSE links
        added_shapes == [k \in DOMAIN added |->
                            Shape(rows1[Len(links.rows) + k].index,
                                  rows1[Len(links.rows) + k].id)]
        shapes1 == IF a.has_links
                   THEN [shapes EXCEPT !.rows = shapes.rows \o added_shapes]
                   ELSE shapes
    IN  IF bad_node
        THEN [err |-> "ValueError", nodes |-> nodes, links |-> links, shapes |-> shapes]
        ELSE IF bad_link
        THEN [err |-> "ValueError", nodes |-> nodes1, links |-> links, shapes |-> shapes]
        ELSE [err |-> "", nodes |-> nodes1, links |-> links1, shapes |-> shapes1]

Add(a) ==
    /\ steps < MaxSteps
    /\ LET r == add_new_roadway_feature_change(AddInputs[a], nodes_df, links_df,
                                               shapes_df)
       IN  /\ nodes_df' = r.nodes
           /\ links_df' = r.links
           /\ shapes_df' = r.shapes
           /\ lastCall' = [op |-> "add", args |-> a, err |-> r.err]
    /\ prevCall' = lastCall
    /\ steps' = steps + 1
    /\ UNCHANGED <<selections, db>>

----------------------------------------------------------------------------
(* apply_roadway_feature_change *)

\* a dictionary of properties: "set" or "change" with its value, and
\* "existing" or not
Property(property, kind, value, has_existing, existing) ==
    [property |-> property, kind |-> kind, value |-> value,
     has_existing |-> has_existing, existing |-> existing]

ApplyArgs(link_idx, properties) == [link_idx |-> link_idx, properties |-> properties]

ApplyInputs ==
    << ApplyArgs(<<0>>, <<Property("lanes", "set", "3", FALSE, "")>>),
       ApplyArgs(<<0, 2>>, <<Property("lanes", "change", 1, TRUE, "9")>>),
       ApplyArgs(<<1>>, <<Property("lanes", "set", "4", TRUE, "2"),
                          Property("roadway", "set", "busway", FALSE, "")>>),
       ApplyArgs(<<0>>, <<Property("toll", "change", 1, FALSE, "")>>) >>

\* the lane counts, which the model writes as strings
Digits == <<"0", "1", "2", "3", "4", "5", "6", "7", "8", "9">>

IsNumber(cell) == cell \in Range(Digits)

\* cell + change for a numeric cell
Plus(cell, change) ==
    LET n == CHOOSE k \in DOMAIN Digits : Digits[k] = cell
    IN  Digits[n + change]

\* RoadwayNetwork.validate_properties with its default arguments: a change
\* of, or an existing value for, a property that is no column is an error
validate_properties(properties, links) ==
    \A k \in DOMAIN properties :
        properties[k].property \notin links.columns
        => properties[k].kind # "change" /\ ~properties[k].has_existing

\* every row is written
AllPositions(links, link_idx) == DOMAIN links.rows

\* .loc[link_idx, ...]: the positions of the rows labelled in link_idx
Positions(links, link_idx) ==
    {k \in DOMAIN links.rows : links.rows[k].index \in Range(link_idx)}

\* lines 1448-1481 for one property on a links table: .loc raises KeyError
\* for a label that is no row label, and the sum of a blanked cell and a
\* number is a TypeError; the existing value is compared for a warning only
ApplyProperty(links, link_idx, p) ==
    LET at == Positions(links, link_idx)
        missing == \E k \in DOMAIN link_idx :
                      \A j \in DOMAIN links.rows : links.rows[j].index # link_idx[k]
        attr == p.property
        New(row) == IF p.kind = "set" THEN p.value ELSE Plus(row[attr], p.value)
        Written(row) == [f \in DOMAIN row \cup {attr} |->
                            IF f = attr THEN New(row) ELSE row[f]]
    IN  IF missing THEN [err |-> "KeyError", links |-> links]
        ELSE IF p.kind = "change" /\ \E k \in at : ~IsNumber(links.rows[k][attr])
        THEN [err |-> "TypeError", links |-> links]
        ELSE [err |-> "",
              links |-> [links EXCEPT
                            !.rows = [k \in DOMAIN links.rows |->
                                        IF k \in at THEN Written(links.rows[k])
                                        ELSE links.rows[k]],
                            !.columns = @ \cup {attr}]]

RECURSIVE ApplyProperties(_, _, _)
ApplyProperties(links, link_idx, properties) ==
    IF properties = <<>> THEN [err |-> "", links |-> links]
    ELSE LET r == ApplyProperty(links, link_idx, Head(properties))
         IN  IF r.err # "" THEN r
             ELSE ApplyProperties(r.links, link_idx, Tail(properties))

\* RoadwayNetwork.apply_roadway_feature_change: in place the links table of
\* the network is written, property by property; otherwise a deep copy of
\* the network is written and returned
apply_roadway_feature_change(a, in_place, links) ==
    LET r == ApplyProperties(links, a.link_idx, a.properties)
    IN  IF ~validate_properties(a.properties, links)
        THEN [err |-> "ValueError", links |-> links, returned |-> <<>>]
        ELSE [err |-> r.err,
              links |-> IF in_place THEN r.links ELSE links,
              returned |-> IF in_place \/ r.err # "" THEN <<>> ELSE <<r.links>>]

Apply(a, in_place) ==
    /\ steps < MaxSteps
    /\ LET r == apply_roadway_feature_change(ApplyInputs[a], in_place, links_df)
       IN  /\ links_df' = r.links
           /\ lastCall' = [op |-> "apply", args |-> a, in_place |-> in_place,
                           err |-> r.err, returned |-> r.returned]
    /\ prevCall' = lastCall
    /\ steps' = steps + 1
    /\ UNCHANGED <<nodes_df, shapes_df, selections, db>>

----------------------------------------------------------------------------
(* The specification *)

SelectStep ==
    \E s \in DOMAIN Selections, m \in SearchModes, f \in BOOLEAN : Select(s, m, f)

DeleteStep == \E d \in DOMAIN DeleteInputs : Delete(d)

ManagedLaneStep == \E in_place \in BOOLEAN : CreateManagedLaneNetwork(in_place)

Next == SelectStep \/ DeleteStep \/ ManagedLaneStep

Spec == Init /\ [][Next]_vars

\* the network under editing operations only
AddStep == \E a \in DOMAIN AddInputs : Add(a)

ApplyStep == \E a \in DOMAIN ApplyInputs, in_place \in BOOLEAN : Apply(a, in_place)

NextEdit == AddStep \/ DeleteStep \/ ManagedLaneStep \/ ApplyStep

SpecEdit == Init /\ [][NextEdit]_vars

\* selections between editing operations: the selections that are made
CachedSelections == {1, 4, 6}

SelectCachedStep ==
    \E s \in CachedSelections, m \in SearchModes, f \in BOOLEAN : Select(s, m, f)

NextCache == SelectCachedStep \/ AddStep \/ DeleteStep \/ ManagedLaneStep \/ ApplyStep

SpecCache == Init /\ [][NextCache]_vars

----------------------------------------------------------------------------
(* DBModelMixin.check_table_fks (models/_base/db.py).  The db holds a     *)
(* table "t" whose field "fk" is declared a foreign key into the field    *)
(* "pk" of the table "ref": _fk = {"fk": ["ref", "pk"]}.  A column is the *)
(* set of its values.                                                      *)

MaxKey == 2

\* table_names lists "ref" or not; is_set has the names of the tables set as
\* attributes; fks has the names of the tables whose model declares _fk
Db(declared, field_in, listed, is_set, pk_in, values, keys) ==
    [table_names |-> IF listed THEN {"t", "ref"} ELSE {"t"},
     is_set |-> IF is_set THEN {"t", "ref"} ELSE {"t"},
     fks |-> IF declared THEN {"t"} ELSE {},
     t |-> [fields |-> IF field_in THEN {"fk"} ELSE {}, fk |-> values],
     ref |-> [fields |-> IF pk_in THEN {"pk"} ELSE {}, pk |-> keys]]

DbInputs ==
    {Db(f[1], f[2], f[3], f[4], f[5], values, keys) :
        f \in [1..5 -> BOOLEAN], values \in SUBSET (1..MaxKey), keys \in SUBSET (1..MaxKey)}

\* utils.fk_in_pk(pk, fk): whether every foreign key value is among the
\* primary key values, and the values that are not
fk_in_pk(pk, fk) == [valid |-> fk \subseteq pk, missing |-> fk \ pk]

\* DBModelMixin.check_table_fks(table_name, table, raise_error) for the
\* table "t": line 280 hands table[field] to fk_in_pk first and
\* fk_table[fk_field] second
check_table_fks(d, raise_error) ==
    LET all_valid ==
            IF "fk" \notin d.t.fields THEN TRUE
            ELSE IF "ref" \notin d.table_names THEN TRUE
            ELSE IF "ref" \notin d.is_set THEN TRUE
            ELSE IF "pk" \notin d.ref.fields THEN FALSE
            ELSE fk_in_pk(d.t.fk, d.ref.pk).valid
    IN  IF "t" \notin d.fks THEN "True"
        ELSE IF all_valid THEN "True"
        ELSE IF raise_error THEN "ForeignKeyValueError"
        ELSE "False"

CheckTableFks(raise_error) ==
    /\ lastCall' = [op |-> "check_table_fks", raise_error |-> raise_error,
                    result |-> check_table_fks(db, raise_error)]
    /\ prevCall' = lastCall
    /\ UNCHANGED <<nodes_df, links_df, shapes_df, selections, steps, db>>

InitFk ==
    /\ db \in DbInputs
    /\ links_df = Table(InitLinks("0", "0", TRUE), BaseLinkCols(TRUE), "")
    /\ nodes_df = Table(InitNodes, BaseNodeCols, "model_node_id_idx")
    /\ shapes_df = Table(InitShapes, BaseShapeCols, "")
    /\ selections = [k \in {} |-> 0]
    /\ lastCall = NoCall
    /\ prevCall = NoCall
    /\ steps = 0

CheckStep == \E raise_error \in BOOLEAN : CheckTableFks(raise_error)

NextFk == CheckStep

SpecFk == InitFk /\ [][NextFk]_vars

----------------------------------------------------------------------------
(* The network of nodes 1, 2, 3 and the links 1->2 and 2->3, both named    *)
(* "Main St", as read from files that list the links in either order and   *)
(* number them in any way.                                                 *)

MainStNodes(id12, id23) ==
    << Node(1, 10, {<<"shst", id12>>}, {}),
       Node(2, 20, {<<"shst", id23>>}, {<<"shst", id12>>}),
       Node(3, 30, {}, {<<"shst", id23>>}) >>

\* first says which link the file lists first; the rows are labelled 0, 1
MainStLinks(id12, id23, first, lanes) ==
    IF first = 12
    THEN << Link(0, id12, 1, 2, <<"Main St">>, <<>>, lanes, "0"),
            Link(1, id23, 2, 3, <<"Main St">>, <<>>, lanes, "0") >>
    ELSE << Link(0, id23, 2, 3, <<"Main St">>, <<>>, lanes, "0"),
            Link(1, id12, 1, 2, <<"Main St">>, <<>>, lanes, "0") >>

MainStShapes(first) ==
    IF first = 12
    THEN << Shape(0, <<Pt(1), Pt(2)>>), Shape(1, <<Pt(2), Pt(3)>>) >>
    ELSE << Shape(0, <<Pt(2), Pt(3)>>), Shape(1, <<Pt(1), Pt(2)>>) >>

\* <<model_link_id of 1->2, model_link_id of 2->3>>
MainStLinkIds == {<<0, 1>>, <<1, 2>>, <<2, 1>>, <<5, 7>>}

MainStSelection == Sel(<<Pred("name", <<"Main St">>)>>, mnid(1), mnid(3))

InitMainSt ==
    /\ \E ids \in MainStLinkIds, first \in {12, 23}, lanes \in {"1", "2"}, r \in BOOLEAN :
          /\ links_df = Table(MainStLinks(ids[1], ids[2], first, lanes),
                              BaseLinkCols(r), "")
          /\ nodes_df = Table(MainStNodes(ids[1], ids[2]), BaseNodeCols,
                              "model_node_id_idx")
          /\ shapes_df = Table(MainStShapes(first), BaseShapeCols, "")
    /\ selections = [k \in {} |-> 0]
    /\ lastCall = NoCall
    /\ prevCall = NoCall
    /\ steps = 0
    /\ db = NoDb

SelectMainSt == \E f \in BOOLEAN : SelectWith(MainStSelection, 0, "drive", f)

NextMainSt == SelectMainSt

SpecMainSt == InitMainSt /\ [][NextMainSt]_vars

----------------------------------------------------------------------------
(* Selections in more than one search mode, on a network whose links      *)
(* carry a walk_access column besides drive_access.                       *)

\* the link rows with a walk_access cell each, walk[k] that of row k
WithWalkAccess(rows, walk) ==
    [k \in DOMAIN rows |->
        [c \in DOMAIN rows[k] \cup {"walk_access"} |->
            IF c = "walk_access" THEN walk[k] ELSE rows[k][c]]]

\* the link rows with the lanes cell of row k set to lanes[k]
WithLanes(rows, lanes) == [k \in DOMAIN rows |-> [rows[k] EXCEPT !.lanes = lanes[k]]]

\* the networks read: <<walk_access of the three links, their lanes>>
ModeNetworks ==
    { <<<<1, 1, 1>>, <<"2", "2", "1">>>>,
      <<<<0, 0, 0>>, <<"2", "2", "1">>>>,
      <<<<1, 1, 0>>, <<"2", "2", "2">>>> }

ModeSearchModes == {"drive", "walk"}

InitModes ==
    /\ \E n \in ModeNetworks :
          links_df = Table(WithLanes(WithWalkAccess(InitLinks("0", "0", TRUE), n[1]),
                                     n[2]),
                           BaseLinkCols(TRUE) \cup {"walk_access"}, "")
    /\ nodes_df = Table(InitNodes, BaseNodeCols, "model_node_id_idx")
    /\ shapes_df = Table(InitShapes, BaseShapeCols, "")
    /\ selections = [k \in {} |-> 0]
    /\ lastCall = NoCall
    /\ prevCall = NoCall
    /\ steps = 0
    /\ db = NoDb

\* the selections made: by name, by name and lanes, by ref and lanes, and
\* one by unique identifier
ModeSelections == {1, 4, 5, 13}

SelectModeStep ==
    \E s \in ModeSelections, m \in ModeSearchModes, f \in BOOLEAN : Select(s, m, f)

NextModes == SelectModeStep

SpecModes == InitModes /\ [][NextModes]_vars

----------------------------------------------------------------------------
(* path_search called with a candidate frame that carries column "i" and   *)
(* with a weight factor, on a network with a chain 1->2->3->4 and the      *)
(* shortcuts 1->3 and 1->4.                                                *)

PathNodes ==
    << Node(1, 10, {<<"shst", 1>>, <<"shst", 4>>, <<"shst", 5>>}, {}),
       Node(2, 20, {<<"shst", 2>>}, {<<"shst", 1>>}),
       Node(3, 30, {<<"shst", 3>>}, {<<"shst", 2>>, <<"shst", 4>>}),
       Node(4, 40, {}, {<<"shst", 3>>, <<"shst", 5>>}) >>

PathLinks ==
    << Link(0, 1, 1, 2, <<"Main">>, <<>>, "2", "0"),
       Link(1, 2, 2, 3, <<"Main">>, <<>>, "2", "0"),
       Link(2, 3, 3, 4, <<"Main">>, <<>>, "2", "0"),
       Link(3, 4, 1, 3, <<"Side">>, <<>>, "1", "0"),
       Link(4, 5, 1, 4, <<"Side">>, <<>>, "1", "0") >>

PathShapes ==
    << Shape(0, <<Pt(1), Pt(2)>>), Shape(1, <<Pt(2), Pt(3)>>),
       Shape(2, <<Pt(3), Pt(4)>>), Shape(3, <<Pt(1), Pt(3)>>),
       Shape(4, <<Pt(1), Pt(4)>>) >>

InitPath ==
    /\ links_df = Table(PathLinks, BaseLinkCols(TRUE), "")
    /\ nodes_df = Table(PathNodes, BaseNodeCols, "model_node_id_idx")
    /\ shapes_df = Table(PathShapes, BaseShapeCols, "")
    /\ selections = [k \in {} |-> 0]
    /\ lastCall = NoCall
    /\ prevCall = NoCall
    /\ steps = 0
    /\ db = NoDb

\* the values of column "i" in the frames passed
MaxTag == 2

\* the frames passed: the chain with i = 0 and the shortcuts with a tag each
\* (-1 for a shortcut that is not in the frame)
PathTags == {<<0, 0, 0, t4, t5>> : t4 \in -1..MaxTag, t5 \in -1..MaxTag}

\* the weight factors passed
PathFactors == {1, 2, SP_WEIGHT_FACTOR}

\* the candidate frame: the rows of the link table with a tag, tagged
TaggedFrame(links, tags) ==
    LET T(row) == tags[row.index + 1] >= 0
        rows == SelectSeq(links, T)
    IN  [k \in DOMAIN rows |-> Cand(rows[k], <<tags[rows[k].index + 1]>>)]

\* the calls of path_search made on one network
MaxPathCalls == 1

\* a call of path_search(candidate_links_df, O_id, D_id, weight_factor=f)
PathSearch(tags, O_id, D_id, f) ==
    /\ steps < MaxPathCalls
    /\ LET ps == path_search(TaggedFrame(links_df.rows, tags), O_id, D_id,
                             nodes_df.rows, links_df.rows, f)
       IN  /\ \E route \in IF ps.err = "" THEN ps.routes ELSE {<<>>} :
                 lastCall' = [op |-> "path_search", tags |-> tags, O_id |-> O_id,
                              D_id |-> D_id, weight_factor |-> f, err |-> ps.err,
                              route |-> route, i |-> ps.i,
                              sp_calls |-> ps.sp_calls,
                              nrounds |-> Len(ps.rounds)]
           /\ links_df' = LinksAfterRounds(links_df, ps.rounds)
    /\ prevCall' = lastCall
    /\ steps' = steps + 1
    /\ UNCHANGED <<nodes_df, shapes_df, selections, db>>

PathSearchStep ==
    \E tags \in PathTags, O_id \in {1, 2}, D_id \in {3, 4}, f \in PathFactors :
        PathSearch(tags, O_id, D_id, f)

NextPath == PathSearchStep

SpecPath == InitPath /\ [][NextPath]_vars

----------------------------------------------------------------------------
(* Properties of select_roadway_features.  lastCall describes the call    *)
(* that led to the state and prevCall the call before it; a select call   *)
(* leaves the tables alone, so the tables of the state are the ones the   *)
(* call of lastCall ran on.                                               *)

IsSelect(c) == c.op = "select"

\* the query a select call runs first on the link table
FirstQuery(c) ==
    build_link_selection_query(Selections[c.sel], UNIQUE_LINK_IDS,
                               MODES_TO_NETWORK_LINK_VARIABLES[c.mode], {})

\* C1: a select call whose link predicates include a unique link identifier
\* and whose query matches at least one link returns exactly the index of the
\* links matching the query, and runs no path search.
C1_UniqueIdSelectionIsExact ==
    (/\ IsSelect(lastCall)
     /\ lastCall.unique
     /\ Query(links_df.rows, FirstQuery(lastCall)) # <<>>)
    => /\ lastCall.err = ""
       /\ lastCall.result = IndexList(Query(links_df.rows, FirstQuery(lastCall)))
       /\ lastCall.path_searches = 0

\* C2: a select call that returns normally returns a non-empty list; with
\* no link selected it raises.
C2_NoEmptySuccess ==
    (IsSelect(lastCall) /\ lastCall.err = "") => lastCall.result # <<>>

\* C3: a select call that follows, with no other operation in between, a
\* select call of the same selection that returned, and that does not force
\* the search, returns the same list, from the cache: it runs no query and no
\* path search.
C3_RepeatedSelectionFromCache ==
    (/\ IsSelect(prevCall) /\ IsSelect(lastCall)
     /\ prevCall.sel = lastCall.sel /\ prevCall.mode = lastCall.mode
     /\ prevCall.err = ""
     /\ ~lastCall.force)
    => /\ lastCall.err = ""
       /\ lastCall.result = prevCall.result
       /\ lastCall.hit
       /\ lastCall.queries = 0
       /\ lastCall.path_searches = 0

\* a path-searched selection repeated and answered from the cache
C3_Witness ==
    /\ IsSelect(prevCall) /\ IsSelect(lastCall)
    /\ prevCall.sel = lastCall.sel
    /\ prevCall.err = "" /\ prevCall.path_searches = 1 /\ prevCall.result # <<>>
    /\ ~prevCall.force /\ ~lastCall.force
    /\ lastCall.hit /\ lastCall.result = prevCall.result

\* a select call that built its cache key and raised
SelectFailed(c) == IsSelect(c) /\ c.err # "" /\ c.key # <<>>

\* C4: a select call that fails in its search leaves a cache entry that
\* records the failure; the next call of the same selection without
\* force_search raises "previously queried" and runs neither query nor path
\* search; with force_search it runs the search again.
C4_FailureIsCached ==
    /\ (SelectFailed(lastCall) /\ ~lastCall.hit)
       => /\ lastCall.key \in DOMAIN selections
          /\ ~selections[lastCall.key].selection_found
    /\ (/\ SelectFailed(prevCall) /\ IsSelect(lastCall)
        /\ prevCall.sel = lastCall.sel /\ prevCall.mode = lastCall.mode)
       => IF lastCall.force
          THEN ~lastCall.hit /\ lastCall.queries > 0
          ELSE /\ lastCall.err = "Exception"
               /\ lastCall.msg = "previously_queried"
               /\ lastCall.hit
               /\ lastCall.queries = 0
               /\ lastCall.path_searches = 0

\* a search that found no path, then the same selection asked again
C4_Witness ==
    /\ IsSelect(prevCall) /\ IsSelect(lastCall)
    /\ prevCall.sel = lastCall.sel
    /\ prevCall.err = "NoPathFound"
    /\ ~lastCall.force
    /\ lastCall.msg = "previously_queried"

\* C5: a select call, returning or raising, leaves the node, link and shape
\* tables (rows, columns, values) as they were.
C5_SelectLeavesTablesAlone ==
    [][lastCall'.op = "select" => net' = net]_vars

\* a select call whose path search widened the candidates and that stored
\* its cache entry
C5_Witness ==
    /\ IsSelect(lastCall)
    /\ lastCall.nrounds > 0
    /\ lastCall.key \in DOMAIN selections

\* C6: a path search that ends without a route raises NoPathFound, which the
\* select call lets through.
C6_NoRouteRaisesNoPathFound ==
    (IsSelect(lastCall) /\ lastCall.path_searches = 1 /\ lastCall.route = <<>>)
    => lastCall.err = "NoPathFound"

\* C7: the links of a found path are exactly the links that join consecutive
\* nodes of the route, which runs from the resolved A to the resolved B.
C7_PathLinksJoinTheRoute ==
    (IsSelect(lastCall) /\ lastCall.path_searches = 1 /\ lastCall.err = "")
    => LET r == lastCall.route
           pl == lastCall.path_links
           Joins(l, k) == l.row.A = r[k] /\ l.row.B = r[k + 1]
       IN  /\ r[1] = lastCall.key[2]
           /\ r[Len(r)] = lastCall.key[3]
           /\ \A k \in 1..(Len(r) - 1) : \E j \in DOMAIN pl : Joins(pl[j], k)
           /\ \A j \in DOMAIN pl : \E k \in 1..(Len(r) - 1) : Joins(pl[j], k)

\* the nodes whose attribute has the value the one-item dict d gives
NodesOf(d) ==
    {k \in DOMAIN nodes_df.rows : nodes_df.rows[k][d[1][1]] = d[1][2]}

\* C8: for a selection without a unique link id, either A and B each
\* resolve to the one node whose attribute has the given value, or the call
\* raises SelectionFormatError.
C8_EndpointsResolveOrRaise ==
    (IsSelect(lastCall) /\ ~lastCall.unique)
    => LET s == Selections[lastCall.sel]
           One(d, id) == /\ Len(d) = 1
                         /\ Cardinality(NodesOf(d)) = 1
                         /\ \A k \in NodesOf(d) : nodes_df.rows[k].model_node_id = id
       IN  \/ lastCall.err = "SelectionFormatError"
           \/ /\ lastCall.key # <<>>
              /\ One(s.A, lastCall.key[2])
              /\ One(s.B, lastCall.key[3])

\* C9: when the first query of a selection without a unique link id matches
\* no link, the query is run once more with ref for name exactly if the
\* selection has a name predicate and the link table a ref column; without
\* the retry, and when the retry matches no link either, a selection-failed
\* error is raised.
C9_RetryOnceWithRef ==
    (IsSelect(lastCall) /\ ~lastCall.unique /\ ~lastCall.hit /\ lastCall.key # <<>>)
    => LET q == FirstQuery(lastCall)
           zero == Query(links_df.rows, q) = <<>>
           may == /\ "name" \in SelectionKeys(Selections[lastCall.sel])
                  /\ "ref" \in links_df.columns
           retry_zero == Query(links_df.rows, ReplaceNameByRef(q)) = <<>>
       IN  /\ lastCall.queries = IF zero /\ may THEN 2 ELSE 1
           /\ (zero /\ ~may)
              => /\ lastCall.err = "Exception"
                 /\ lastCall.msg \in {"name_not_in_search", "ref_not_in_network"}
           /\ (zero /\ may /\ retry_zero)
              => /\ lastCall.err = "Exception"
                 /\ lastCall.msg = "no_candidate_links"
           /\ (zero /\ may /\ ~retry_zero) => lastCall.msg = ""

\* a selection found by ref after its name matched nothing
C9_Witness ==
    /\ IsSelect(lastCall)
    /\ ~lastCall.unique
    /\ lastCall.queries = 2
    /\ lastCall.err = ""
    /\ lastCall.result # <<>>

----------------------------------------------------------------------------
(* Properties of create_managed_lane_network *)

NetworkTables == [nodes_df |-> nodes_df, links_df |-> links_df, shapes_df |-> shapes_df]

\* C10: with an "ml_access" link in the link table the call changes nothing
\* and returns the network as it is; and a call on the output of a call
\* before it yields tables equal to that output.
C10_SecondRunChangesNothing ==
    [][lastCall'.op = "managed_lanes"
       => /\ HasAccessLinks(links_df)
             => /\ net' = net
                /\ lastCall'.err = ""
                /\ ~lastCall'.in_place => lastCall'.returned = <<NetworkTables>>
          /\ (lastCall.op = "managed_lanes" /\ lastCall.in_place /\ lastCall.err = "")
             => /\ net' = net
                /\ lastCall'.err = ""
                /\ ~lastCall'.in_place => lastCall'.returned = <<NetworkTables>>]_vars

----------------------------------------------------------------------------
(* Properties of create_managed_lane_network *)

IsManagedLanes(c) == c.op = "managed_lanes"

\* a call that built the managed-lane tables
Transformed(c) == IsManagedLanes(c) /\ c.err = "" /\ ~c.guard

NumManaged(links) == Cardinality({k \in DOMAIN links.rows : links.rows[k].managed = "1"})

\* C11: a managed-lane transformation builds as many managed-lane links as
\* general-purpose copies as there are input links with managed = 1, and one
\* access and one egress connector per such link, counted before duplicate
\* (A,B) rows are dropped.
C11_OneLaneAndTwoConnectorsPerManagedLink ==
    [][Transformed(lastCall')
        => /\ lastCall'.n_ml = NumManaged(links_df)
           /\ lastCall'.n_gp = NumManaged(links_df)
           /\ lastCall'.n_access = NumManaged(links_df)
           /\ lastCall'.n_egress = NumManaged(links_df)
           /\ lastCall'.n_access + lastCall'.n_egress = 2 * NumManaged(links_df)
           /\ Len(lastCall'.concat)
                = 4 * NumManaged(links_df)
                  + Cardinality({k \in DOMAIN links_df.rows :
                                    links_df.rows[k].managed = "0"})]_vars

C11_Witness ==
    /\ Transformed(lastCall)
    /\ lastCall.n_ml = 2
    /\ lastCall.n_access + lastCall.n_egress = 4

\* the tables a managed-lane call put out: those of the network itself when
\* in place, else those of the network returned
OutTables(c, nodes, links, shapes) ==
    IF c.in_place THEN [nodes_df |-> nodes, links_df |-> links, shapes_df |-> shapes]
    ELSE c.returned[1]

\* Series.is_unique
is_unique(col) == \A j, k \in DOMAIN col : j # k => col[j] # col[k]

\* the columns of the keys
LinkIdCol(rows) == [k \in DOMAIN rows |-> rows[k].model_link_id]
NodeIdCol(rows) == [k \in DOMAIN rows |-> rows[k].model_node_id]
ABOf(row) == <<row.A, row.B>>
ABCol(rows) == [k \in DOMAIN rows |-> ABOf(rows[k])]

\* C12: the managed-lane transform preserves id uniqueness: when the input
\* tables have unique model_link_id and model_node_id, all below the link-id
\* and node-id scalars, the output link table has pairwise distinct
\* model_link_id and the output node table pairwise distinct model_node_id.
C12_TransformKeepsIdsUnique ==
    [][(/\ Transformed(lastCall')
        /\ is_unique(LinkIdCol(links_df.rows))
        /\ is_unique(NodeIdCol(nodes_df.rows))
        /\ \A k \in DOMAIN links_df.rows :
              links_df.rows[k].model_link_id < MANAGED_LANES_LINK_ID_SCALAR
        /\ \A k \in DOMAIN nodes_df.rows :
              nodes_df.rows[k].model_node_id < MANAGED_LANES_NODE_ID_SCALAR)
        => LET out == OutTables(lastCall', nodes_df', links_df', shapes_df')
           IN  /\ is_unique(LinkIdCol(out.links_df.rows))
               /\ is_unique(NodeIdCol(out.nodes_df.rows))]_vars

\* C13: after a managed-lane transformation no two rows of the output link
\* table share their (A,B) pair, and of the concatenated rows (general
\* purpose, managed lane, access, egress, untouched) with the same (A,B)
\* only the one that comes last in the concatenation is kept.
C13_LastOfEqualABIsKept ==
    Transformed(lastCall)
    => LET out == OutTables(lastCall, nodes_df, links_df, shapes_df).links_df.rows
           concat == lastCall.concat
           Last(k) == \A j \in DOMAIN concat : ABOf(concat[j]) = ABOf(concat[k]) => j <= k
           SameRow(a, b) == [a EXCEPT !.index = 0] = [b EXCEPT !.index = 0]
       IN  /\ is_unique(ABCol(out))
           /\ \A k \in DOMAIN concat :
                 Last(k) <=> \E j \in DOMAIN out : SameRow(out[j], concat[k])
           /\ \A j \in DOMAIN out : \E k \in DOMAIN concat :
                 Last(k) /\ SameRow(out[j], concat[k])

\* a transformation in which a general-purpose copy gave way to an untouched
\* link with the same (A,B)
C13_Witness ==
    /\ Transformed(lastCall)
    /\ LET out == OutTables(lastCall, nodes_df, links_df, shapes_df).links_df.rows
       IN  /\ Len(out) < Len(lastCall.concat)
           /\ \E j \in DOMAIN out : out[j].model_link_id = 8 /\ ABOf(out[j]) = <<3, 1>>
           /\ \A j \in DOMAIN out : out[j].model_link_id # 7

\* C14: create_managed_lane_network with in_place = False leaves the node,
\* link and shape tables of the network unchanged and returns a new network
\* holding the transformed tables; with in_place = True it replaces the
\* tables of the network itself by them and returns nothing.
C14_InPlaceOrCopy ==
    [][IsManagedLanes(lastCall')
        => LET r == managed_lane_tables(nodes_df, links_df, shapes_df)
               built == [nodes_df |-> r.nodes, links_df |-> r.links,
                         shapes_df |-> r.shapes]
           IN  IF lastCall'.in_place
               THEN /\ lastCall'.returned = <<>>
                    /\ r.err = "" =>
                         /\ nodes_df' = built.nodes_df
                         /\ links_df' = built.links_df
                         /\ shapes_df' = built.shapes_df
               ELSE /\ net' = net
                    /\ r.err = "" => lastCall'.returned = <<built>>]_vars

\* a call not in place that transformed and left the network as it was,
\* followed by a call in place that put the same tables into the network
C14_Witness ==
    /\ Transformed(prevCall) /\ ~prevCall.in_place
    /\ Transformed(lastCall) /\ lastCall.in_place
    /\ lastCall.n_ml >= 1
    /\ links_df = prevCall.returned[1].links_df
    /\ nodes_df = prevCall.returned[1].nodes_df
    /\ Len(links_df.rows) > lastCall.n_gp + 2

IsAccessConnector(row) == Len(row.name) > 0 /\ row.name[1] = "Access Dummy "
IsEgressConnector(row) == Len(row.name) > 0 /\ row.name[1] = "Egress Dummy "

\* C15: the connectors of a managed-lane transformation carry distinct
\* roadway tags: every access connector is tagged "ml_access" and every
\* egress connector "ml_egress", never "ml_access".
C15_ConnectorsTaggedApart ==
    Transformed(lastCall)
    => LET out == OutTables(lastCall, nodes_df, links_df, shapes_df).links_df.rows
       IN  \A k \in DOMAIN out :
              /\ IsAccessConnector(out[k]) => out[k].roadway = "ml_access"
              /\ IsEgressConnector(out[k]) => out[k].roadway = "ml_egress"

----------------------------------------------------------------------------
(* Consistency of the network *)

ShapeIdCol(rows) == [k \in DOMAIN rows |-> rows[k].id]

\* RoadwayNetwork.validate_uniqueness: the key columns are there and unique.
\* RoadwayNetwork.__init__ raises ValueError when it returns False; no other
\* operation calls it.
validate_uniqueness(nodes, links, shapes) ==
    /\ UNIQUE_LINK_IDS \subseteq links.columns
    /\ is_unique(LinkIdCol(links.rows))
    /\ {"A", "B"} \subseteq links.columns
    /\ is_unique(ABCol(links.rows))
    /\ NODE_FOREIGN_KEY \in nodes.columns
    /\ is_unique(NodeIdCol(nodes.rows))
    /\ "id" \in shapes.columns
    /\ is_unique(ShapeIdCol(shapes.rows))

\* every link starts and ends at a node of the node table
LinksReferToNodes(nodes, links) ==
    \A k \in DOMAIN links.rows :
        /\ \E n \in DOMAIN nodes.rows : nodes.rows[n].model_node_id = links.rows[k].A
        /\ \E n \in DOMAIN nodes.rows : nodes.rows[n].model_node_id = links.rows[k].B

\* the tables an operation left behind or returned
ResultTables(c, nodes, links, shapes) ==
    IF IsManagedLanes(c) /\ ~c.in_place THEN c.returned[1]
    ELSE [nodes_df |-> nodes, links_df |-> links, shapes_df |-> shapes]

\* the construction of the network, or an add, delete or managed-lane call
\* that raised nothing
Completed(c) ==
    \/ c.op = "none"
    \/ c.op \in {"add", "delete", "managed_lanes"} /\ c.err = ""

\* C16: consistency (unique ids, links referring to nodes of the table) is
\* validated after construction, after every add or delete and after every
\* managed-lane transformation, and a violation raises an error: so the
\* network constructed, and the tables of every add, delete or managed-lane
\* call that completed normally, are consistent.
C16_CompletedOperationsLeaveConsistency ==
    Completed(lastCall)
    => LET t == ResultTables(lastCall, nodes_df, links_df, shapes_df)
       IN  /\ validate_uniqueness(t.nodes_df, t.links_df, t.shapes_df)
           /\ LinksReferToNodes(t.nodes_df, t.links_df)

----------------------------------------------------------------------------
(* Properties of check_table_fks *)

\* the foreign key is declared, its field is in the table, and the table
\* referred to is in the db with its key field
FkCheckable(d) ==
    /\ "t" \in d.fks
    /\ "fk" \in d.t.fields
    /\ "ref" \in d.table_names
    /\ "ref" \in d.is_set
    /\ "pk" \in d.ref.fields

----------------------------------------------------------------------------
(* Properties of add_new_roadway_feature_change *)

NodeIds(nodes) == {nodes.rows[k].model_node_id : k \in DOMAIN nodes.rows}

\* C18: add_new_roadway_feature_change raises an error, and does not add
\* the offending item, when a node to add has an id that is in the node
\* table already, when a link to add has an (A,B) pair that is in the link
\* table already, or when the A or B node of a link to add is not in the
\* node table (which by then holds the nodes of the same call).
C18_AddRejectsOffendingItems ==
    [][lastCall'.op = "add"
        => LET a == AddInputs[lastCall'.args]
               known == NodeIds(nodes_df)
                        \cup (IF a.has_nodes THEN Range(a.nodes) ELSE {})
               bad_node == a.has_nodes /\ Range(a.nodes) \cap NodeIds(nodes_df) # {}
               bad_link ==
                   /\ a.has_links
                   /\ \E k \in DOMAIN a.links :
                         \/ \E j \in DOMAIN links_df.rows :
                               ABOf(links_df.rows[j]) = ABOf(a.links[k])
                         \/ a.links[k].A \notin known
                         \/ a.links[k].B \notin known
           IN  /\ bad_node => lastCall'.err = "ValueError" /\ net' = net
               /\ bad_link => /\ lastCall'.err = "ValueError"
                              /\ links_df' = links_df
                              /\ shapes_df' = shapes_df]_vars

\* a call refused for a node in the table already, then a call refused for
\* a link whose B node is in no table, none of its links added
C18_Witness ==
    /\ prevCall.op = "add" /\ prevCall.args = 2 /\ prevCall.err = "ValueError"
    /\ lastCall.op = "add" /\ lastCall.args = 4 /\ lastCall.err = "ValueError"
    /\ \A k \in DOMAIN links_df.rows : links_df.rows[k].model_link_id \notin {7, 8}
    /\ 2 \in NodeIds(nodes_df)

----------------------------------------------------------------------------
(* End to end *)

\* the row labels a select call returned, as the (A,B) pairs of the rows
\* they label
LinksNamed(result, links) ==
    [k \in DOMAIN result |->
        {ABOf(links.rows[j]) : j \in {i \in DOMAIN links.rows :
                                        links.rows[i].index = result[k]}}]

\* C19: on the network of nodes 1, 2, 3 and links 1->2 and 2->3, both named
\* "Main St", selecting "Main St" from node 1 to node 3 returns exactly the
\* two links, ordered along the path: link 1->2 first, link 2->3 second.
C19_MainStInPathOrder ==
    IsSelect(lastCall)
    => /\ lastCall.err = ""
       /\ LinksNamed(lastCall.result, links_df) = << {<<1, 2>>}, {<<2, 3>>} >>

----------------------------------------------------------------------------
(* Properties of apply_roadway_feature_change *)

\* the value a property leaves in a cell that held old
Changed(p, old, new) ==
    IF p.kind = "set" THEN new = p.value
    ELSE \E n, m \in DOMAIN Digits :
            Digits[n] = old /\ Digits[m] = new /\ m = n + p.value

\* C20: apply_roadway_feature_change writes the set or changed value to the
\* named attribute on exactly the rows named in the list of selected links,
\* and to no other row or attribute; an "existing" value that differs from
\* the value in the network neither prevents nor alters the change.
C20_ApplyWritesSelectedRowsOnly ==
    [][(lastCall'.op = "apply" /\ lastCall'.err = "")
        => LET a == ApplyInputs[lastCall'.args]
               old == links_df.rows
               new == IF lastCall'.in_place THEN links_df'.rows
                      ELSE lastCall'.returned[1].rows
               named == {a.properties[k].property : k \in DOMAIN a.properties}
           IN  /\ DOMAIN new = DOMAIN old
               /\ nodes_df' = nodes_df /\ shapes_df' = shapes_df
               /\ ~lastCall'.in_place => links_df' = links_df
               /\ \A k \in DOMAIN old :
                     IF old[k].index \in Range(a.link_idx)
                     THEN /\ \A j \in DOMAIN a.properties :
                                Changed(a.properties[j],
                                        old[k][a.properties[j].property],
                                        new[k][a.properties[j].property])
                          /\ \A f \in DOMAIN old[k] \ named : new[k][f] = old[k][f]
                     ELSE new[k] = old[k]]_vars

\* a change of lanes by 1 on the rows labelled 0 and 2, with an existing
\* value of 9 that no row holds
C20_Witness ==
    /\ lastCall.op = "apply" /\ lastCall.args = 2 /\ lastCall.in_place
    /\ lastCall.err = "" /\ prevCall.op = "none"
    /\ ApplyInputs[2].properties[1].has_existing
    /\ \A k \in DOMAIN links_df.rows : links_df.rows[k].lanes # "9"
    /\ links_df.rows[1].lanes = "3"
    /\ links_df.rows[2].lanes = "2"
    /\ links_df.rows[3].lanes = "2"

----------------------------------------------------------------------------
(* The selection cache over the life of a network *)

EditOps == {"add", "delete", "managed_lanes", "apply"}

\* C21: in every step, whatever the operation, every entry of the selection
\* cache stays in the cache, and an entry changes only in a call of
\* select_roadway_features that computes the selection of that same key.
C21_CacheEntriesStay ==
    [][\A k \in DOMAIN selections :
          /\ k \in DOMAIN selections'
          /\ selections'[k] # selections[k]
             => /\ IsSelect(lastCall') /\ lastCall'.key = k /\ ~lastCall'.hit]_vars

\* an editing operation has run on a network whose cache holds two selections
C21_Witness ==
    /\ lastCall.op \in EditOps
    /\ IsSelect(prevCall) /\ prevCall.err = ""
    /\ Cardinality(DOMAIN selections) >= 2

\* C22: two select calls that use the same cache entry run the same query on
\* the link table first, its modal-access requirement included; the
\* endpoints they resolve are part of the key.
C22_SharedEntrySameQuery ==
    (/\ IsSelect(prevCall) /\ IsSelect(lastCall)
     /\ prevCall.key # <<>> /\ prevCall.key = lastCall.key)
    => FirstQuery(prevCall) = FirstQuery(lastCall)

----------------------------------------------------------------------------
(* The path search of a select call *)

PathSearched(c) == IsSelect(c) /\ c.path_searches = 1

\* the expansion rounds run before the first call of shortest_path
RoundsBeforeFirstAttempt(c) ==
    IF c.sp_calls = 0 THEN c.nrounds ELSE c.nrounds - (c.sp_calls - 1)

\* C23: a path search ends having run at most SEARCH_BREADTH expansion
\* rounds before its first shortest-path attempt and at most
\* MAX_SEARCH_BREADTH rounds in all, with i never above MAX_SEARCH_BREADTH.
C23_PathSearchWithinBreadth ==
    PathSearched(lastCall)
    => /\ RoundsBeforeFirstAttempt(lastCall) <= SEARCH_BREADTH
       /\ lastCall.nrounds <= MAX_SEARCH_BREADTH
       /\ lastCall.i <= MAX_SEARCH_BREADTH

\* C24: in the candidate frame of a path search every link carries as i the
\* round that added it: 0 for the matches of the query, k for a link
\* added in round k.
C24_TagIsRoundAdded ==
    PathSearched(lastCall)
    => \A k \in DOMAIN lastCall.cands :
          lastCall.cands[k].i = <<lastCall.cands[k].round>>

\* the paths from O_id to D_id in a frame
FramePaths(cands, O_id, D_id) ==
    PathsFrom(<<O_id>>, D_id, {<<cands[k].row.A, cands[k].row.B>> : k \in DOMAIN cands})

C26_WideningIsMonotonic ==
    PathSearched(lastCall)
    => /\ \A r \in DOMAIN lastCall.rounds :
             Range(lastCall.rounds[r].before) \subseteq Range(lastCall.rounds[r].after)
       /\ \A r \in 1..(Len(lastCall.rounds) - 1) :
             lastCall.rounds[r + 1].before = lastCall.rounds[r].after

\* a path search that ran two rounds or more, the first of which added links
C26_Witness ==
    /\ PathSearched(lastCall)
    /\ Len(lastCall.rounds) >= 2
    /\ Range(lastCall.rounds[1].after) # Range(lastCall.rounds[1].before)
    /\ lastCall.rounds[1].before # <<>>

\* the list a select call would return if its path links were filtered by
\* the link predicates whose key is not in ignore, and by the modal-access
\* columns in mode (<<>> for none)
PathLinksFiltered(c, ignore, mode) ==
    LET T(pl) ==
            /\ \A k \in DOMAIN Selections[c.sel].link :
                   Selections[c.sel].link[k].key \notin ignore
                   => RowMatches(pl.row, [clauses |-> <<Selections[c.sel].link[k]>>,
                                          mode |-> <<>>])
            /\ mode # <<>> => \E m \in DOMAIN mode : pl.row[mode[m]] = 1
    IN  CandIndex(SelectSeq(c.path_links, T))

PathSelected(c) == PathSearched(c) /\ c.err = ""

----------------------------------------------------------------------------
(* The network over sequences of structural changes *)

\* C28: on a network read with every link's A and B among the ids of the
\* node table, after any sequence of add, delete and managed-lane calls
\* every link's A and B is an id of the node table, in the tables of the
\* network and in the tables a managed-lane call returned.
C28_EndsStayInNodeTable ==
    /\ LinksReferToNodes(nodes_df, links_df)
    /\ (IsManagedLanes(lastCall) /\ lastCall.err = "")
       => LET out == ResultTables(lastCall, nodes_df, links_df, shapes_df)
          IN  LinksReferToNodes(out.nodes_df, out.links_df)

\* C29: every value a select call returns, from the cache or not, after any
\* delete or managed-lane call before it, labels a row that is in the link
\* table now; for a selection by unique identifier the row matches the
\* query of the selection.
C29_ReturnedLinksAreCurrent ==
    (IsSelect(lastCall) /\ lastCall.err = "")
    => \A v \in Range(lastCall.result) :
          \E k \in DOMAIN links_df.rows :
              /\ links_df.rows[k].index = v
              /\ lastCall.unique
                 => RowMatches(links_df.rows[k], FirstQuery(lastCall))

\* C30: an add or delete call that raises leaves the node, link and shape
\* tables exactly as they were before the call.
C30_RaisingChangeLeavesTables ==
    [][(lastCall'.op \in {"add", "delete"} /\ lastCall'.err # "") => net' = net]_vars

====
